---- MODULE Spec2Model ----
(***************************************************************************)
(* flexrc: the counting metadata of one heap record (FlexRcInner) and the  *)
(* handles (FlexRc) that threads hold on it.                               *)
(*                                                                         *)
(* Two metadata schemes implement the Algorithm trait:                     *)
(*   "regular": Meta<MODE>, a union of one Cell counter and one atomic     *)
(*              counter (algorithm/regular.rs);                            *)
(*   "hybrid" : HybridMeta<MODE>, a Cell local_count, an atomic            *)
(*              shared_count whose top bit is LOCAL_PRESENT and, with the  *)
(*              track_threads feature, an atomic thread_id whose top bit   *)
(*              is a spinlock (algorithm/hybrid.rs).                       *)
(*                                                                         *)
(* Every atomic read-modify-write is one step.  A function that touches    *)
(* shared memory more than once is split at each access, with the thread's *)
(* position in pc and its locals in old_thread_id / old_shared_count.      *)
(* Machine words are scaled from 32/64 bits to CounterBits / IdBits bits;  *)
(* all arithmetic on them wraps at that width, as the hardware does.       *)
(***************************************************************************)
EXTENDS Integers, FiniteSets, Sequences, TLC

\* ---------------------------------------------------------------- bounds
\* Number of threads; a thread's identity (THREAD_ID) is its number.
NThreads == 2
\* Most handles (of both flavors, in flight or not) alive at one time.
MaxHandles == 3
\* Width of local_count / shared_count / the regular counter (u32 in the code).
CounterBits == 4
\* Width of the thread_id word (usize in the code).
IdBits == 3

Threads == 1..NThreads

RECURSIVE Pow2(_)
Pow2(n) == IF n = 0 THEN 1 ELSE 2 * Pow2(n - 1)

\* Bitwise operations on machine words, as fetch_or / fetch_and compute them.
RECURSIVE BitAnd(_, _)
BitAnd(a, b) ==
    IF a = 0 \/ b = 0 THEN 0
    ELSE (a % 2) * (b % 2) + 2 * BitAnd(a \div 2, b \div 2)

RECURSIVE BitOr(_, _)
BitOr(a, b) ==
    IF a = 0 THEN b
    ELSE IF b = 0 THEN a
    ELSE (IF (a % 2) + (b % 2) > 0 THEN 1 ELSE 0) + 2 * BitOr(a \div 2, b \div 2)

\* u32::MAX and usize::MAX at the model's widths.
CounterMax == Pow2(CounterBits) - 1
IdMax == Pow2(IdBits) - 1

\* Wrapping add / sub of an atomic counter (fetch_add / fetch_sub never trap).
WrapAdd(x, d) == (x + d) % Pow2(CounterBits)
WrapSub(x, d) == (x - d) % Pow2(CounterBits)

\* ------------------------------------------------- constants of hybrid.rs
THREAD_ID_LOCKED == (IdMax \div 2) + 1
THREAD_ID_UNLOCKED == IdMax \div 2
MAX_LOCAL_COUNT == CounterMax
MAX_SHARED_COUNT == CounterMax \div 4
LOCAL_PRESENT == (CounterMax \div 2) + 1
CLEAR_LOCAL == CounterMax \div 2

\* ------------------------------------------------ constants of regular.rs
Regular_MAX_LOCAL_COUNT == CounterMax
Regular_MAX_SHARED_COUNT == CounterMax \div 2

VARIABLES
    scheme,            \* "regular" | "hybrid": which metadata pair the record uses
    track,             \* the track_threads feature of the build
    created,           \* FlexRc::new has run
    deallocs,          \* how many times a drop returned true (Box::from_raw ran)
    aborted,           \* abort() was called: the process is gone
    count,             \* regular scheme: the union's counter (local / shared)
    local_count,       \* hybrid: Cell<u32>
    shared_count,      \* hybrid: AtomicU32, top bit LOCAL_PRESENT
    thread_id,         \* hybrid, track_threads: AtomicUsize, top bit = lock
    nLocal,            \* nLocal[t]: Local handles thread t holds, not in an operation
    nShared,           \* nShared[t]: Shared handles thread t holds, not in an operation
    pc,                \* pc[t]: where thread t is inside a multi-step operation
    consuming,         \* consuming[t]: the conversion in flight is try_into_other
    old_thread_id,     \* local of the tracked claim
    old_shared_count,  \* local of the tracked claim; `old` of a Shared clone in flight
    ev,                \* the step just taken: operation, thread, result
    trips,             \* regular scheme: successful try_into_other calls so far (2 = two or more)
    small_counters,    \* the small_counters feature of the build
    usize_bytes,       \* size of usize and of a pointer on the target
    payload,           \* size and alignment of the payload type T
    layout,            \* layout[flavor]: the layouts computed for the flavor's types
    counter,           \* ThreadTrackerInner::counter
    used_counters,     \* ThreadTrackerInner::used_counters
    guard,             \* the tracker's Mutex: 0 when free, else the thread holding it
    tpc,               \* tpc[t]: where thread t is in its life and in the tracker's calls
    THREAD_ID,         \* THREAD_ID[t]: the ThreadId bound to thread t, 0 when none
    probes             \* turns the probe loop has made in the get_new_id call in progress

vars == <<scheme, track, created, deallocs, aborted, count, local_count,
          shared_count, thread_id, nLocal, nShared, pc, consuming,
          old_thread_id, old_shared_count, ev, trips,
          small_counters, usize_bytes, payload, layout,
          counter, used_counters, guard, tpc, THREAD_ID, probes>>

meta == <<count, local_count, shared_count, thread_id>>
\* The thread tracker (algorithm/hybrid_threads.rs), which the operations on
\* a record leave alone.
tracker == <<counter, used_counters, guard, tpc, THREAD_ID, probes>>
config == <<scheme, track, small_counters, usize_bytes, payload, layout, tracker>>
claimLocals == <<consuming, old_thread_id, old_shared_count>>

\* ev names the step just taken where its result is not otherwise part of the
\* state: a conversion's or get_mut's return value, an abort.  Every other
\* step leaves NoEvent.
Event(op, t, ret) == [op |-> op, t |-> t, ret |-> ret]
NoEvent == Event("-", 0, "-")

\* ------------------------------------------------------- handle counting
RECURSIVE SumTo(_, _)
SumTo(f, n) == IF n = 0 THEN 0 ELSE f[n] + SumTo(f, n - 1)

ClaimPcs == {"claim_lock", "claim_or", "claim_rel", "claim_clone"}

\* A handle stays alive until the operation that consumes it has returned:
\* the Local handle of a drop waiting for its fetch_and, the Shared handle a
\* claim was called on.
InFlightLocal(t) == IF pc[t] = "ldrop_clear" THEN 1 ELSE 0
InFlightShared(t) == IF pc[t] \in ClaimPcs THEN 1 ELSE 0
LiveLocal(t) == nLocal[t] + InFlightLocal(t)
LiveShared(t) == nShared[t] + InFlightShared(t)
TotalLocal == SumTo([t \in Threads |-> LiveLocal(t)], NThreads)
TotalShared == SumTo([t \in Threads |-> LiveShared(t)], NThreads)
TotalLive == TotalLocal + TotalShared

Idle(t) == pc[t] = "idle"
Running == created /\ ~aborted
CanAdd == TotalLive < MaxHandles

\* A type's layout: size and alignment in bytes.
Layout(size, align) == [size |-> size, align |-> align]

\* The build the counting specifications run on: 64-bit, usize counters, a
\* usize payload (the T of the static assertions).
DefaultBuild ==
    /\ small_counters = FALSE
    /\ usize_bytes = 8
    /\ payload = Layout(8, 8)
    /\ layout = [f \in {"Local", "Shared"} |->
                   [meta |-> Layout(0, 0), inner |-> Layout(0, 0),
                    data_offset |-> 0, handle |-> Layout(0, 0)]]

\* ---------------------------------------------- constants of hybrid_threads.rs
MAX_THREADS == IdMax \div 2

\* The threads of the tracker's specification.  A slot whose thread has ended
\* is taken by the next thread started in it.
TrackerThreads == 1..NThreads

\* ThreadTracker::default(): counter 0, no identity issued, the Mutex free;
\* no thread started.
ThreadTrackerDefault ==
    /\ counter = 0
    /\ used_counters = {}
    /\ guard = 0
    /\ tpc = [t \in TrackerThreads |-> "none"]
    /\ THREAD_ID = [t \in TrackerThreads |-> 0]
    /\ probes = 0

Init ==
    /\ DefaultBuild
    /\ ThreadTrackerDefault
    /\ scheme \in {"regular", "hybrid"}
    /\ track \in BOOLEAN
    /\ (scheme = "regular" => ~track)
    /\ created = FALSE
    /\ deallocs = 0
    /\ aborted = FALSE
    /\ count = 0
    /\ local_count = 0
    /\ shared_count = 0
    /\ thread_id = 0
    /\ nLocal = [t \in Threads |-> 0]
    /\ nShared = [t \in Threads |-> 0]
    /\ pc = [t \in Threads |-> "idle"]
    /\ consuming = [t \in Threads |-> FALSE]
    /\ old_thread_id = [t \in Threads |-> 0]
    /\ old_shared_count = [t \in Threads |-> 0]
    /\ ev = NoEvent
    /\ trips = 0

\* Faulty variant of FlexRc::new: the hybrid Local create() leaves the shared
\* word zero instead of LOCAL_PRESENT.
New_LocalWithoutFlag(t, mode) ==
    /\ ~created
    /\ created' = TRUE
    /\ IF scheme = "regular"
       THEN /\ count' = 1
            /\ UNCHANGED <<local_count, shared_count, thread_id>>
       ELSE /\ count' = count
            /\ IF mode = "Local"
               THEN /\ thread_id' = (IF track THEN t ELSE 0)
                    /\ local_count' = 1
                    /\ shared_count' = 0
               ELSE /\ thread_id' = 0
                    /\ local_count' = 0
                    /\ shared_count' = 1
    /\ nLocal' = [nLocal EXCEPT ![t] = IF mode = "Local" THEN 1 ELSE 0]
    /\ nShared' = [nShared EXCEPT ![t] = IF mode = "Shared" THEN 1 ELSE 0]
    /\ ev' = NoEvent
    /\ UNCHANGED <<config, trips, deallocs, aborted, pc, claimLocals>>

\* Faulty variant of FlexRc::new: the hybrid Local create() records no owner.
New_LocalNoOwner(t, mode) ==
    /\ ~created
    /\ created' = TRUE
    /\ IF scheme = "regular"
       THEN /\ count' = 1
            /\ UNCHANGED <<local_count, shared_count, thread_id>>
       ELSE /\ count' = count
            /\ IF mode = "Local"
               THEN /\ thread_id' = 0
                    /\ local_count' = 1
                    /\ shared_count' = LOCAL_PRESENT
               ELSE /\ thread_id' = 0
                    /\ local_count' = 0
                    /\ shared_count' = 1
    /\ nLocal' = [nLocal EXCEPT ![t] = IF mode = "Local" THEN 1 ELSE 0]
    /\ nShared' = [nShared EXCEPT ![t] = IF mode = "Shared" THEN 1 ELSE 0]
    /\ ev' = NoEvent
    /\ UNCHANGED <<config, trips, deallocs, aborted, pc, claimLocals>>

\* ------------------------------------------------------------ FlexRc::new
\* FlexRc::new -> FlexRcInner::new -> META::create(), on thread t.
New(t, mode) ==
    /\ ~created
    /\ created' = TRUE
    /\ IF scheme = "regular"
       THEN /\ count' = 1
            /\ UNCHANGED <<local_count, shared_count, thread_id>>
       ELSE /\ count' = count
            /\ IF mode = "Local"
               THEN /\ thread_id' = (IF track THEN t ELSE 0)
                    /\ local_count' = 1
                    /\ shared_count' = LOCAL_PRESENT
               ELSE /\ thread_id' = 0
                    /\ local_count' = 0
                    /\ shared_count' = 1
    /\ nLocal' = [nLocal EXCEPT ![t] = IF mode = "Local" THEN 1 ELSE 0]
    /\ nShared' = [nShared EXCEPT ![t] = IF mode = "Shared" THEN 1 ELSE 0]
    /\ ev' = NoEvent
    /\ UNCHANGED <<config, trips, deallocs, aborted, pc, claimLocals>>

\* Box::from_raw in impl Drop for FlexRc, run when Algorithm::drop returned true.
\* The counter saturates at 2: one deallocation too many is all that matters.
Dealloc(ret) == IF ret /\ deallocs < 2 THEN deallocs + 1 ELSE deallocs

\* ------------------------------------------------ variants of the tests
\* Each definition below is a faulty variant of one of the tests that follow;
\* the safety properties are sensitive to the difference.

\* Local drop that clears the flag and never reports the record as free.
LocalDropResult_Never(old) == FALSE

\* Tracked claim that skips the test on the old values.
TrackedClaimAllowed_Always(tid, old_tid, old_sc) == TRUE

\* Spin loop that leaves on its first turn, whatever fetch_or handed back.
LockObtained_Always(old_tid) == TRUE

\* Success path that stores the owner with the lock bit still set.
UnlockOnSuccess_KeepsLock(tid) == BitOr(tid, THREAD_ID_LOCKED)

\* Shared drop that looks at the count bits only, forgetting LOCAL_PRESENT.
SharedDropResult_IgnoresFlag(old) == BitAnd(old, CLEAR_LOCAL) = 1

\* Local drop that frees whenever the presence flag was set, forgetting the
\* shared count.
LocalDropResult_IgnoresShared(old) == old >= LOCAL_PRESENT

\* Shared is_unique that looks at the count bits only.
HybridShared_is_unique_IgnoresFlag == BitAnd(shared_count, CLEAR_LOCAL) = 1

\* Tracked claim without the "we are the local thread" alternative.
TrackedClaimAllowed_NoOwnerReclaim(tid, old_tid, old_sc) == old_sc < LOCAL_PRESENT

\* Untracked claim that masks the flag away before testing it.
UntrackedClaimAllowed_MaskedCount(old) == BitAnd(old, CLEAR_LOCAL) < LOCAL_PRESENT

\* Tracked claim that only ever lets the recorded thread through.
TrackedClaimAllowed_OwnerOnly(tid, old_tid, old_sc) == tid = old_tid

\* Success path that releases the spinlock without recording the owner.
UnlockOnSuccess_NoOwner(tid) == 0

\* Shared clone whose overflow test compares with the Local limit.
SharedCloneOverflow_LocalLimit(old) == old > MAX_LOCAL_COUNT

\* Failure path that forgets to release the spinlock.
UnlockOnFailure_KeepsLock(cur) == cur

\* ------------------------------------------------- HybridMeta<LocalMode>
\* is_unique: local_count == 1 && shared_count.load(Acquire) == LOCAL_PRESENT
HybridLocal_is_unique == local_count = 1 /\ shared_count = LOCAL_PRESENT

\* clone: the overflow test on the old value of local_count.
LocalCloneOverflow(old) == old = MAX_LOCAL_COUNT

\* drop: the value it returns, from the old value fetch_and handed back.
LocalDropResult(old) == old = LOCAL_PRESENT

\* ------------------------------------------------ HybridMeta<SharedMode>
\* is_unique: shared_count.load(Acquire) == 1
HybridShared_is_unique == shared_count = 1

\* clone: the overflow test on the old value fetch_add handed back.
SharedCloneOverflow(old) == old > MAX_SHARED_COUNT

\* drop: the value it returns, from the old value fetch_sub handed back.
SharedDropResult(old) == old = 1

\* try_into_other without track_threads: the test on fetch_or's old value.
UntrackedClaimAllowed(old) == old < LOCAL_PRESENT

\* try_into_other with track_threads: "we are the local thread OR there is
\* no local thread".
TrackedClaimAllowed(tid, old_tid, old_sc) == tid = old_tid \/ old_sc < LOCAL_PRESENT

\* The spinlock: fetch_or(THREAD_ID_LOCKED) obtained it iff the old value
\* had the lock bit unset.
LockObtained(old_tid) == old_tid < THREAD_ID_LOCKED

\* The failure path's release: fetch_and(THREAD_ID_UNLOCKED).
UnlockOnFailure(cur) == BitAnd(cur, THREAD_ID_UNLOCKED)

\* The success path's release: store(thread_id).
UnlockOnSuccess(tid) == tid

\* ----------------------------------------------- hybrid: Local clone/drop
\* impl Clone for FlexRc -> HybridMeta<LocalMode>::clone
HybridLocalClone(t) ==
    /\ Running /\ scheme = "hybrid" /\ Idle(t) /\ nLocal[t] > 0 /\ CanAdd
    /\ IF LocalCloneOverflow(local_count)
       THEN /\ aborted' = TRUE
            /\ ev' = Event("local_clone", t, "abort")
            /\ UNCHANGED <<local_count, nLocal>>
       ELSE /\ local_count' = local_count + 1
            /\ nLocal' = [nLocal EXCEPT ![t] = @ + 1]
            /\ ev' = NoEvent
            /\ UNCHANGED aborted
    /\ UNCHANGED <<config, trips, created, deallocs, count, shared_count, thread_id,
                   nShared, pc, claimLocals>>

\* impl Drop for FlexRc -> HybridMeta<LocalMode>::drop, first half: the
\* decrement of local_count.  Not zero: drop returns false.  Zero: the
\* fetch_and follows.
HybridLocalDropDec(t) ==
    /\ Running /\ scheme = "hybrid" /\ Idle(t) /\ nLocal[t] > 0
    /\ local_count' = WrapSub(local_count, 1)
    /\ nLocal' = [nLocal EXCEPT ![t] = @ - 1]
    /\ IF local_count' = 0
       THEN /\ pc' = [pc EXCEPT ![t] = "ldrop_clear"]
            /\ ev' = NoEvent
       ELSE /\ pc' = pc
            /\ ev' = NoEvent
    /\ UNCHANGED <<config, trips, created, deallocs, aborted, count, shared_count,
                   thread_id, nShared, claimLocals>>

\* Faulty variant: the final Local drop reads the shared word (load) instead
\* of clearing LOCAL_PRESENT in it.
HybridLocalDropClear_KeepsFlag(t) ==
    /\ Running /\ pc[t] = "ldrop_clear"
    /\ LET old == shared_count
       IN /\ shared_count' = old
          /\ deallocs' = Dealloc(LocalDropResult(old))
          /\ ev' = NoEvent
    /\ pc' = [pc EXCEPT ![t] = "idle"]
    /\ UNCHANGED <<config, trips, created, aborted, count, local_count, thread_id,
                   nLocal, nShared, claimLocals>>

\* Faulty variant: the final Local drop swaps 0 into the shared word instead
\* of clearing LOCAL_PRESENT in it.
HybridLocalDropClear_StoresZero(t) ==
    /\ Running /\ pc[t] = "ldrop_clear"
    /\ LET old == shared_count
       IN /\ shared_count' = 0
          /\ deallocs' = Dealloc(LocalDropResult(old))
          /\ ev' = NoEvent
    /\ pc' = [pc EXCEPT ![t] = "idle"]
    /\ UNCHANGED <<config, trips, created, aborted, count, local_count, thread_id,
                   nLocal, nShared, claimLocals>>

\* HybridMeta<LocalMode>::drop, second half: fetch_and(CLEAR_LOCAL, Release),
\* and the deallocation in impl Drop for FlexRc when it returns true.
HybridLocalDropClear(t) ==
    /\ Running /\ pc[t] = "ldrop_clear"
    /\ LET old == shared_count
       IN /\ shared_count' = BitAnd(old, CLEAR_LOCAL)
          /\ deallocs' = Dealloc(LocalDropResult(old))
          /\ ev' = NoEvent
    /\ pc' = [pc EXCEPT ![t] = "idle"]
    /\ UNCHANGED <<config, trips, created, aborted, count, local_count, thread_id,
                   nLocal, nShared, claimLocals>>

\* ---------------------------------------------- hybrid: Shared clone/drop
\* impl Clone for FlexRc -> HybridMeta<SharedMode>::clone
HybridSharedClone(t) ==
    /\ Running /\ scheme = "hybrid" /\ Idle(t) /\ nShared[t] > 0 /\ CanAdd
    /\ LET old == shared_count
       IN /\ shared_count' = WrapAdd(old, 1)
          /\ IF SharedCloneOverflow(old)
             THEN /\ aborted' = TRUE
                  /\ ev' = Event("shared_clone", t, "abort")
                  /\ UNCHANGED nShared
             ELSE /\ nShared' = [nShared EXCEPT ![t] = @ + 1]
                  /\ ev' = NoEvent
                  /\ UNCHANGED aborted
    /\ UNCHANGED <<config, trips, created, deallocs, count, local_count, thread_id,
                   nLocal, pc, claimLocals>>

\* impl Drop for FlexRc -> HybridMeta<SharedMode>::drop
HybridSharedDrop(t) ==
    /\ Running /\ scheme = "hybrid" /\ Idle(t) /\ nShared[t] > 0
    /\ LET old == shared_count
       IN /\ shared_count' = WrapSub(old, 1)
          /\ deallocs' = Dealloc(SharedDropResult(old))
          /\ ev' = NoEvent
    /\ nShared' = [nShared EXCEPT ![t] = @ - 1]
    /\ UNCHANGED <<config, trips, created, aborted, count, local_count, thread_id,
                   nLocal, pc, claimLocals>>

\* ------------------------------------------- hybrid: Local -> Shared
\* HybridMeta<LocalMode>::try_into_other (into = TRUE) and try_to_other
\* (into = FALSE, which calls try_into_other): the Shared-flavored metadata's
\* clone() on the same block, then Ok(inner).  try_into_other consumes the
\* caller's Local pointer (the trait's contract), try_to_other does not.
HybridPromote(t, into) ==
    /\ Running /\ scheme = "hybrid" /\ Idle(t) /\ nLocal[t] > 0
    /\ into \/ CanAdd
    /\ LET old == shared_count
           op == IF into THEN "promote_into" ELSE "promote_to"
       IN /\ shared_count' = WrapAdd(old, 1)
          /\ IF SharedCloneOverflow(old)
             THEN /\ aborted' = TRUE
                  /\ ev' = Event(op, t, "abort")
                  /\ UNCHANGED <<nLocal, nShared>>
             ELSE /\ nShared' = [nShared EXCEPT ![t] = @ + 1]
                  /\ nLocal' = [nLocal EXCEPT ![t] = IF into THEN @ - 1 ELSE @]
                  /\ ev' = Event(op, t, "Ok")
                  /\ UNCHANGED aborted
    /\ UNCHANGED <<config, trips, created, deallocs, count, local_count, thread_id,
                   pc, claimLocals>>

\* ------------------------------ hybrid: Shared -> Local, no track_threads
\* HybridMeta<SharedMode>::try_into_other / try_to_other without
\* track_threads, first step: fetch_or(LOCAL_PRESENT, Acquire).  Err(inner)
\* returns at once; on success the Local-flavored clone() follows.
UntrackedClaim(t, into) ==
    /\ Running /\ scheme = "hybrid" /\ ~track /\ Idle(t) /\ nShared[t] > 0
    /\ into \/ CanAdd
    /\ LET old == shared_count
       IN /\ shared_count' = BitOr(old, LOCAL_PRESENT)
          /\ IF UntrackedClaimAllowed(old)
             THEN /\ pc' = [pc EXCEPT ![t] = "claim_clone"]
                  /\ nShared' = [nShared EXCEPT ![t] = @ - 1]
                  /\ consuming' = [consuming EXCEPT ![t] = into]
                  /\ ev' = Event("claim", t, "Ok")
             ELSE /\ ev' = Event("claim", t, "Err")
                  /\ UNCHANGED <<pc, nShared, consuming>>
    /\ UNCHANGED <<config, trips, created, deallocs, aborted, count, local_count,
                   thread_id, nLocal, old_thread_id, old_shared_count>>

\* ------------------------------- hybrid: Shared -> Local, track_threads
\* One turn of the spin loop: fetch_or(THREAD_ID_LOCKED, Acquire).
SpinLock(t) ==
    LET old == thread_id
    IN /\ thread_id' = BitOr(old, THREAD_ID_LOCKED)
       /\ IF LockObtained(old)
          THEN /\ pc' = [pc EXCEPT ![t] = "claim_or"]
               /\ old_thread_id' = [old_thread_id EXCEPT ![t] = old]
          ELSE /\ pc' = [pc EXCEPT ![t] = "claim_lock"]
               /\ UNCHANGED old_thread_id

\* try_into_other / try_to_other with track_threads: entry and the first
\* turn of the spin loop.
TrackedClaimBegin(t, into) ==
    /\ Running /\ scheme = "hybrid" /\ track /\ Idle(t) /\ nShared[t] > 0
    /\ into \/ CanAdd
    /\ SpinLock(t)
    /\ nShared' = [nShared EXCEPT ![t] = @ - 1]
    /\ consuming' = [consuming EXCEPT ![t] = into]
    /\ ev' = NoEvent
    /\ UNCHANGED <<config, trips, created, deallocs, aborted, count, local_count,
                   shared_count, nLocal, old_shared_count>>

\* A further turn of the spin loop.
TrackedClaimSpin(t) ==
    /\ Running /\ pc[t] = "claim_lock"
    /\ SpinLock(t)
    /\ ev' = NoEvent
    /\ UNCHANGED <<config, trips, created, deallocs, aborted, count, local_count,
                   shared_count, nLocal, nShared, consuming, old_shared_count>>

\* Under the lock: fetch_or(LOCAL_PRESENT, Acquire).  What the claim will
\* return is decided here, from old_thread_id and old_shared_count.
TrackedClaimOr(t) ==
    /\ Running /\ pc[t] = "claim_or"
    /\ LET old == shared_count
       IN /\ shared_count' = BitOr(old, LOCAL_PRESENT)
          /\ old_shared_count' = [old_shared_count EXCEPT ![t] = old]
          /\ ev' = Event("claim", t,
                         IF TrackedClaimAllowed(t, old_thread_id[t], old)
                         THEN "Ok" ELSE "Err")
    /\ pc' = [pc EXCEPT ![t] = "claim_rel"]
    /\ UNCHANGED <<config, trips, created, deallocs, aborted, count, local_count,
                   thread_id, nLocal, nShared, consuming, old_thread_id>>

\* The branch and the release of the spinlock: store(thread_id) on success,
\* fetch_and(THREAD_ID_UNLOCKED) and Err(inner) on failure.
TrackedClaimRelease(t) ==
    /\ Running /\ pc[t] = "claim_rel"
    /\ IF TrackedClaimAllowed(t, old_thread_id[t], old_shared_count[t])
       THEN /\ thread_id' = UnlockOnSuccess(t)
            /\ pc' = [pc EXCEPT ![t] = "claim_clone"]
            /\ ev' = NoEvent
            /\ UNCHANGED <<nShared, consuming>>
       ELSE /\ thread_id' = UnlockOnFailure(thread_id)
            /\ pc' = [pc EXCEPT ![t] = "idle"]
            /\ nShared' = [nShared EXCEPT ![t] = @ + 1]
            /\ consuming' = [consuming EXCEPT ![t] = FALSE]
            /\ ev' = Event("claim_ret", t, "Err")
    /\ old_thread_id' = [old_thread_id EXCEPT ![t] = 0]
    /\ old_shared_count' = [old_shared_count EXCEPT ![t] = 0]
    /\ UNCHANGED <<config, trips, created, deallocs, aborted, count, local_count,
                   shared_count, nLocal>>

\* Faulty variant: the success path stores 1 in the local counter instead of
\* calling the Local clone().
ClaimClone_StoresOne(t) ==
    /\ Running /\ pc[t] = "claim_clone"
    /\ IF LocalCloneOverflow(local_count)
       THEN /\ aborted' = TRUE
            /\ ev' = Event("claim_ret", t, "abort")
            /\ UNCHANGED <<local_count, nLocal, nShared, pc, consuming>>
       ELSE /\ local_count' = 1
            /\ nLocal' = [nLocal EXCEPT ![t] = @ + 1]
            /\ nShared' = [nShared EXCEPT ![t] = IF consuming[t] THEN @ ELSE @ + 1]
            /\ pc' = [pc EXCEPT ![t] = "idle"]
            /\ consuming' = [consuming EXCEPT ![t] = FALSE]
            /\ ev' = Event(IF consuming[t] THEN "claim_into_ret" ELSE "claim_to_ret",
                           t, "Ok")
            /\ UNCHANGED aborted
    /\ UNCHANGED <<config, trips, created, deallocs, count, shared_count, thread_id,
                   old_thread_id, old_shared_count>>

\* The success path of both claims: the Local-flavored metadata's clone() on
\* the same block, then Ok(inner).  try_into_other has consumed the caller's
\* Shared pointer, try_to_other has not.
ClaimClone(t) ==
    /\ Running /\ pc[t] = "claim_clone"
    /\ IF LocalCloneOverflow(local_count)
       THEN /\ aborted' = TRUE
            /\ ev' = Event("claim_ret", t, "abort")
            /\ UNCHANGED <<local_count, nLocal, nShared, pc, consuming>>
       ELSE /\ local_count' = local_count + 1
            /\ nLocal' = [nLocal EXCEPT ![t] = @ + 1]
            /\ nShared' = [nShared EXCEPT ![t] = IF consuming[t] THEN @ ELSE @ + 1]
            /\ pc' = [pc EXCEPT ![t] = "idle"]
            /\ consuming' = [consuming EXCEPT ![t] = FALSE]
            /\ ev' = Event(IF consuming[t] THEN "claim_into_ret" ELSE "claim_to_ret",
                           t, "Ok")
            /\ UNCHANGED aborted
    /\ UNCHANGED <<config, trips, created, deallocs, count, shared_count, thread_id,
                   old_thread_id, old_shared_count>>

\* ------------------------------------------------------ regular scheme
\* Faulty variant: a Shared drop that takes fetch_sub's result for the new
\* value of the counter.
RegularSharedDropResult_NewValue(old) == old = 0

\* Faulty variant: a Local drop that frees the record one handle early.
RegularLocalDropResult_Early(new) == new <= 1

\* Faulty variant: a Local is_unique that accepts any live record.
RegularLocal_is_unique_AnyCount == count >= 1

\* Meta<LocalMode>::is_unique: get_count() == 1
RegularLocal_is_unique == count = 1

\* Meta<SharedMode>::is_unique: shared.load(Acquire) == 1
RegularShared_is_unique == count = 1

\* Meta<LocalMode>::clone: the overflow test.
RegularLocalCloneOverflow(old) == old = Regular_MAX_LOCAL_COUNT

\* Meta<SharedMode>::clone: the overflow test.
RegularSharedCloneOverflow(old) == old > Regular_MAX_SHARED_COUNT

\* Meta<LocalMode>::drop: get_count() == 0 after the decrement.
RegularLocalDropResult(new) == new = 0

\* Meta<SharedMode>::drop: fetch_sub's old value == 1.
RegularSharedDropResult(old) == old = 1

\* impl Clone for FlexRc -> Meta<LocalMode>::clone
RegularLocalClone(t) ==
    /\ Running /\ scheme = "regular" /\ Idle(t) /\ nLocal[t] > 0 /\ CanAdd
    /\ IF RegularLocalCloneOverflow(count)
       THEN /\ aborted' = TRUE
            /\ ev' = Event("local_clone", t, "abort")
            /\ UNCHANGED <<count, nLocal>>
       ELSE /\ count' = count + 1
            /\ nLocal' = [nLocal EXCEPT ![t] = @ + 1]
            /\ ev' = NoEvent
            /\ UNCHANGED aborted
    /\ UNCHANGED <<config, trips, created, deallocs, local_count, shared_count,
                   thread_id, nShared, pc, claimLocals>>

\* impl Drop for FlexRc -> Meta<LocalMode>::drop
RegularLocalDrop(t) ==
    /\ Running /\ scheme = "regular" /\ Idle(t) /\ nLocal[t] > 0
    /\ count' = WrapSub(count, 1)
    /\ deallocs' = Dealloc(RegularLocalDropResult(count'))
    /\ ev' = NoEvent
    /\ nLocal' = [nLocal EXCEPT ![t] = @ - 1]
    /\ UNCHANGED <<config, trips, created, aborted, local_count, shared_count,
                   thread_id, nShared, pc, claimLocals>>

\* impl Clone for FlexRc -> Meta<SharedMode>::clone
RegularSharedClone(t) ==
    /\ Running /\ scheme = "regular" /\ Idle(t) /\ nShared[t] > 0 /\ CanAdd
    /\ LET old == count
       IN /\ count' = WrapAdd(old, 1)
          /\ IF RegularSharedCloneOverflow(old)
             THEN /\ aborted' = TRUE
                  /\ ev' = Event("shared_clone", t, "abort")
                  /\ UNCHANGED nShared
             ELSE /\ nShared' = [nShared EXCEPT ![t] = @ + 1]
                  /\ ev' = NoEvent
                  /\ UNCHANGED aborted
    /\ UNCHANGED <<config, trips, created, deallocs, local_count, shared_count,
                   thread_id, nLocal, pc, claimLocals>>

\* impl Drop for FlexRc -> Meta<SharedMode>::drop
RegularSharedDrop(t) ==
    /\ Running /\ scheme = "regular" /\ Idle(t) /\ nShared[t] > 0
    /\ LET old == count
       IN /\ count' = WrapSub(old, 1)
          /\ deallocs' = Dealloc(RegularSharedDropResult(old))
          /\ ev' = NoEvent
    /\ nShared' = [nShared EXCEPT ![t] = @ - 1]
    /\ UNCHANGED <<config, trips, created, aborted, local_count, shared_count,
                   thread_id, nLocal, pc, claimLocals>>

\* Meta<LocalMode>::try_into_other: when unique, ptr::write of a fresh atomic
\* 1 over the union and the pointer retyped; otherwise Err(inner).
RegularLocalTryIntoOther(t) ==
    /\ Running /\ scheme = "regular" /\ Idle(t) /\ nLocal[t] > 0
    /\ IF RegularLocal_is_unique
       THEN /\ count' = 1
            /\ nLocal' = [nLocal EXCEPT ![t] = @ - 1]
            /\ nShared' = [nShared EXCEPT ![t] = @ + 1]
            /\ ev' = Event("local_into", t, "Ok")
            /\ trips' = IF trips < 2 THEN trips + 1 ELSE 2
       ELSE /\ ev' = Event("local_into", t, "Err")
            /\ UNCHANGED <<count, nLocal, nShared, trips>>
    /\ UNCHANGED <<config, created, deallocs, aborted, local_count,
                   shared_count, thread_id, pc, claimLocals>>

\* Faulty variant: the Local counter written over the union starts at 0.
RegularSharedTryIntoOther_ZeroCount(t) ==
    /\ Running /\ scheme = "regular" /\ Idle(t) /\ nShared[t] > 0
    /\ IF RegularShared_is_unique
       THEN /\ count' = 0
            /\ nShared' = [nShared EXCEPT ![t] = @ - 1]
            /\ nLocal' = [nLocal EXCEPT ![t] = @ + 1]
            /\ ev' = Event("shared_into", t, "Ok")
            /\ trips' = IF trips < 2 THEN trips + 1 ELSE 2
       ELSE /\ ev' = Event("shared_into", t, "Err")
            /\ UNCHANGED <<count, nLocal, nShared, trips>>
    /\ UNCHANGED <<config, created, deallocs, aborted, local_count,
                   shared_count, thread_id, pc, claimLocals>>

\* Meta<SharedMode>::try_into_other: when unique, ptr::write of Cell 1 over
\* the union and the pointer retyped; otherwise Err(inner).
RegularSharedTryIntoOther(t) ==
    /\ Running /\ scheme = "regular" /\ Idle(t) /\ nShared[t] > 0
    /\ IF RegularShared_is_unique
       THEN /\ count' = 1
            /\ nShared' = [nShared EXCEPT ![t] = @ - 1]
            /\ nLocal' = [nLocal EXCEPT ![t] = @ + 1]
            /\ ev' = Event("shared_into", t, "Ok")
            /\ trips' = IF trips < 2 THEN trips + 1 ELSE 2
       ELSE /\ ev' = Event("shared_into", t, "Err")
            /\ UNCHANGED <<count, nLocal, nShared, trips>>
    /\ UNCHANGED <<config, created, deallocs, aborted, local_count,
                   shared_count, thread_id, pc, claimLocals>>

\* Faulty variant: a try_to_other that hands out a handle of the other flavor
\* over the same record when the source is unique.
RegularTryToOther_WhenUnique(t, flavor) ==
    /\ Running /\ scheme = "regular" /\ Idle(t) /\ CanAdd
    /\ IF flavor = "Local" THEN nLocal[t] > 0 ELSE nShared[t] > 0
    /\ IF count = 1
       THEN /\ ev' = Event(IF flavor = "Local" THEN "local_to" ELSE "shared_to", t, "Ok")
            /\ nLocal' = [nLocal EXCEPT ![t] = IF flavor = "Local" THEN @ ELSE @ + 1]
            /\ nShared' = [nShared EXCEPT ![t] = IF flavor = "Local" THEN @ + 1 ELSE @]
       ELSE /\ ev' = Event(IF flavor = "Local" THEN "local_to" ELSE "shared_to", t, "Err")
            /\ UNCHANGED <<nLocal, nShared>>
    /\ UNCHANGED <<config, trips, created, deallocs, aborted, meta, pc, claimLocals>>

\* Meta<LocalMode>::try_to_other and Meta<SharedMode>::try_to_other:
\* "This is never safe to do", Err(inner).
RegularTryToOther(t, flavor) ==
    /\ Running /\ scheme = "regular" /\ Idle(t)
    /\ IF flavor = "Local" THEN nLocal[t] > 0 ELSE nShared[t] > 0
    /\ ev' = Event(IF flavor = "Local" THEN "local_to" ELSE "shared_to", t, "Err")
    /\ UNCHANGED <<config, trips, created, deallocs, aborted, meta, nLocal, nShared,
                   pc, claimLocals>>

\* ------------------------------------------------------------ container
\* FlexRc::is_unique -> metadata.is_unique(), by the handle's flavor.
is_unique(flavor) ==
    IF scheme = "regular"
    THEN (IF flavor = "Local" THEN RegularLocal_is_unique ELSE RegularShared_is_unique)
    ELSE (IF flavor = "Local" THEN HybridLocal_is_unique ELSE HybridShared_is_unique)

Holds(t, flavor) == IF flavor = "Local" THEN nLocal[t] > 0 ELSE nShared[t] > 0

\* FlexRc::get_mut: Some(&mut T) when is_unique(), else None.  While the
\* &mut T lives the handle is mutably borrowed and its thread is in "mut".
GetMut(t, flavor) ==
    /\ Running /\ Idle(t) /\ Holds(t, flavor)
    /\ IF is_unique(flavor)
       THEN /\ pc' = [pc EXCEPT ![t] = "mut"]
            /\ ev' = Event(IF flavor = "Local" THEN "local_get_mut" ELSE "shared_get_mut",
                           t, "Some")
       ELSE /\ pc' = pc
            /\ ev' = Event(IF flavor = "Local" THEN "local_get_mut" ELSE "shared_get_mut",
                           t, "None")
    /\ UNCHANGED <<config, trips, created, deallocs, aborted, meta, nLocal, nShared,
                   claimLocals>>

\* The &mut T goes out of scope.
ReleaseMut(t) ==
    /\ Running /\ pc[t] = "mut"
    /\ pc' = [pc EXCEPT ![t] = "idle"]
    /\ ev' = NoEvent
    /\ UNCHANGED <<config, trips, created, deallocs, aborted, meta, nLocal, nShared,
                   claimLocals>>

\* A Shared handle is moved to another thread (SharedRc / SharedHybridRc are
\* Send; Local handles are not).
Send(t, u) ==
    /\ Running /\ Idle(t) /\ nShared[t] > 0 /\ u # t
    /\ nShared' = [nShared EXCEPT ![t] = @ - 1, ![u] = @ + 1]
    /\ ev' = NoEvent
    /\ UNCHANGED <<config, trips, created, deallocs, aborted, meta, nLocal, pc,
                   claimLocals>>

\* FlexRc::into_other, the Err(this) arm of its match on try_into_other,
\* taken by the thread whose consuming conversion just returned Err:
\* from_ref(&*this) builds a second record of the target flavor around a
\* clone of the payload, with the count META::create() gives it, then `this`,
\* the source handle, goes out of scope and is dropped.  ev.ret is the flavor
\* of the handle returned.  (The Ok(other) arm returns what try_into_other
\* returned.)
IntoOtherFallback(t) ==
    /\ Running /\ Idle(t)
    /\ ev.t = t /\ ev.ret = "Err"
    /\ ev.op \in {"local_into", "shared_into", "claim", "claim_ret"}
    /\ ev.op = "claim" => ~track
    /\ LET source == IF ev.op = "local_into" THEN "Local" ELSE "Shared"
           target == IF source = "Local" THEN "Shared" ELSE "Local"
       IN /\ ev' = Event("into_other", t, target)
          /\ IF source = "Local"
             THEN /\ nLocal[t] > 0
                  /\ count' = WrapSub(count, 1)
                  /\ deallocs' = Dealloc(RegularLocalDropResult(count'))
                  /\ nLocal' = [nLocal EXCEPT ![t] = @ - 1]
                  /\ UNCHANGED <<shared_count, nShared>>
             ELSE /\ nShared[t] > 0
                  /\ nShared' = [nShared EXCEPT ![t] = @ - 1]
                  /\ UNCHANGED nLocal
                  /\ IF scheme = "regular"
                     THEN /\ count' = WrapSub(count, 1)
                          /\ deallocs' = Dealloc(RegularSharedDropResult(count))
                          /\ UNCHANGED shared_count
                     ELSE /\ shared_count' = WrapSub(shared_count, 1)
                          /\ deallocs' = Dealloc(SharedDropResult(shared_count))
                          /\ UNCHANGED count
    /\ UNCHANGED <<config, trips, created, aborted, local_count, thread_id, pc,
                   claimLocals>>

Flavors == {"Local", "Shared"}

Next ==
    \E t \in Threads :
        \/ \E mode \in Flavors : New(t, mode)
        \/ HybridLocalClone(t)
        \/ HybridLocalDropDec(t)
        \/ HybridLocalDropClear(t)
        \/ HybridSharedClone(t)
        \/ HybridSharedDrop(t)
        \/ \E into \in BOOLEAN : HybridPromote(t, into)
        \/ \E into \in BOOLEAN : UntrackedClaim(t, into)
        \/ \E into \in BOOLEAN : TrackedClaimBegin(t, into)
        \/ TrackedClaimSpin(t)
        \/ TrackedClaimOr(t)
        \/ TrackedClaimRelease(t)
        \/ ClaimClone(t)
        \/ RegularLocalClone(t)
        \/ RegularLocalDrop(t)
        \/ RegularSharedClone(t)
        \/ RegularSharedDrop(t)
        \/ RegularLocalTryIntoOther(t)
        \/ RegularSharedTryIntoOther(t)
        \/ \E flavor \in Flavors : RegularTryToOther(t, flavor)
        \/ \E flavor \in Flavors : GetMut(t, flavor)
        \/ ReleaseMut(t)
        \/ \E u \in Threads : Send(t, u)
        \/ IntoOtherFallback(t)

Spec == Init /\ [][Next]_vars

\* ================================================================ claims
\* The true shared count: shared_count without the LOCAL_PRESENT bit.
TrueSharedCount == BitAnd(shared_count, CLEAR_LOCAL)
LocalPresent == shared_count >= LOCAL_PRESENT

\* Thread u has won a claim whose Local clone() is still to come.
ClaimWon(u) ==
    \/ pc[u] = "claim_clone"
    \/ /\ pc[u] = "claim_rel"
       /\ TrackedClaimAllowed(u, old_thread_id[u], old_shared_count[u])

\* Thread u holds the Local claim of the record: live Local handles or a
\* won claim.
HoldsLocalClaim(u) == LiveLocal(u) > 0 \/ ClaimWon(u)
OtherHoldsLocalClaim(t) == \E u \in Threads \ {t} : HoldsLocalClaim(u)

\* C1: on a hybrid record at most one drop call ever returns true, under
\* every interleaving of Local and Shared clone/drop, promote and claim:
\* the record is deallocated at most once.
C1_NoDoubleFree == scheme = "hybrid" => deallocs <= 1

\* C1 witness: a hybrid record has been deallocated, exactly once, after its
\* last handle was dropped.
C1_Witness ==
    /\ scheme = "hybrid" /\ deallocs = 1
    /\ local_count = 0 /\ shared_count = 0
    /\ TotalLive = 0

\* C2: a drop returns true only when the handle dropped was the last live
\* handle of either flavor: no Local or Shared handle is live on a record
\* that has been deallocated, in both schemes.
C2_NoUseAfterFree == deallocs >= 1 => TotalLive = 0

\* C2 witness: a record has been deallocated by a drop that returned true.
C2_Witness == deallocs = 1 /\ TotalLive = 0 /\ ~aborted

\* C3 (as claimed): once every handle of a record has been dropped, handles
\* obtained by conversions included, the record has been deallocated.
C3_NoLeak == (Running /\ TotalLive = 0) => deallocs >= 1

\* C4 (as claimed): a promote (Local -> Shared conversion on a hybrid record)
\* called with a live Local handle and a true shared count not above
\* MAX_SHARED_COUNT returns Ok: it never aborts.
C4_PromoteUnconditional ==
    (ev.op \in {"promote_into", "promote_to"}
     /\ BitAnd(WrapSub(shared_count, 1), CLEAR_LOCAL) <= MAX_SHARED_COUNT)
        => ev.ret = "Ok"

\* C5 (as claimed): is_unique() on a handle is true iff exactly one handle,
\* both flavors counted, is live on the record.
C5_UniqueIffOneHandle ==
    \A t \in Threads : \A flavor \in Flavors :
        (Running /\ deallocs = 0 /\ Idle(t) /\ Holds(t, flavor))
            => (is_unique(flavor) <=> TotalLive = 1)

\* C6: get_mut() gives mutable access iff is_unique() holds when it is
\* called, and None otherwise; so while the mutable access lasts no second
\* handle of either flavor is live.
C6_GetMutExclusive ==
    /\ \A t \in Threads : pc[t] = "mut" => TotalLive = 1
    /\ ev.op = "local_get_mut" => (ev.ret = "Some" <=> is_unique("Local"))
    /\ ev.op = "shared_get_mut" => (ev.ret = "Some" <=> is_unique("Shared"))

\* C6 witness: get_mut() on a hybrid Shared handle has returned Some.
C6_Witness ==
    /\ scheme = "hybrid" /\ ev.op = "shared_get_mut" /\ ev.ret = "Some"
    /\ pc[ev.t] = "mut"

\* C7 (as claimed): a claim succeeds iff no other thread holds the Local
\* claim; in particular it succeeds when the Local handles present belong to
\* the calling thread.
C7_ClaimIffNoOtherOwner ==
    ev.op = "claim" => (ev.ret = "Ok" <=> ~OtherHoldsLocalClaim(ev.t))

\* C7 (amended): with track_threads a claim succeeds iff no other thread
\* holds the Local claim; without it a claim succeeds iff the presence flag
\* was clear, that is iff no thread at all, the caller included, holds Local
\* handles: the caller's own Local handles make it fail.
C7_ClaimOutcome ==
    ev.op = "claim" =>
        (ev.ret = "Ok" <=>
            IF track
            THEN ~OtherHoldsLocalClaim(ev.t)
            ELSE ~OtherHoldsLocalClaim(ev.t) /\ LiveLocal(ev.t) = 0)

\* C7 witness: without track_threads, a claim by the thread that itself
\* holds the Local handles has returned Err.
C7_Witness ==
    /\ ~track /\ ev.op = "claim" /\ ev.ret = "Err"
    /\ nLocal[ev.t] > 0 /\ ~OtherHoldsLocalClaim(ev.t)

\* C8: on a hybrid record all live Local handles are held by one thread, and
\* of two threads racing a claim at most one wins.
C8_LocalConfinement ==
    scheme = "hybrid" =>
        \A u, v \in Threads :
            (HoldsLocalClaim(u) /\ HoldsLocalClaim(v)) => u = v

\* C8 witness: one thread has won the claim while another thread's claim on
\* the same record is in flight.
C8_Witness ==
    \E u, v \in Threads :
        /\ u # v
        /\ ClaimWon(u)
        /\ pc[v] \in {"claim_lock", "claim_or", "claim_rel"}

\* C9: a claim that returns Err has no effect: the step that decides the
\* failure leaves the local counter, the shared counter (presence flag
\* included) and the handles as they were, and, under track_threads, the
\* return leaves in the thread-identity field the value it held when the
\* attempt took the lock.
C9_FailedClaimNoEffect ==
    [][(ev'.ret = "Err" /\ ev'.op \in {"claim", "claim_ret"}) =>
          /\ local_count' = local_count
          /\ shared_count' = shared_count
          /\ nLocal' = nLocal
          /\ ev'.op = "claim" => thread_id' = thread_id
          /\ ev'.op = "claim_ret" =>
                /\ thread_id' = old_thread_id[ev'.t]
                /\ nShared'[ev'.t] = nShared[ev'.t] + 1
                /\ pc'[ev'.t] = "idle"]_vars

\* C9 witness: under track_threads a claim has returned Err on a record whose
\* thread-identity field names the owner.
C9_Witness ==
    /\ track /\ ev.op = "claim_ret" /\ ev.ret = "Err"
    /\ thread_id \in Threads /\ thread_id # ev.t
    /\ LocalPresent

\* C10 (as claimed): the return of a successful try_into_other leaves the
\* source flavor's count one lower and the target flavor's count one higher,
\* so the record counts as many handles as before the call.
C10_IntoConsumesSourceCount ==
    [][/\ (ev'.op = "claim_into_ret" /\ ev'.ret = "Ok") =>
            /\ BitAnd(shared_count', CLEAR_LOCAL) = TrueSharedCount - 1
            /\ local_count' = local_count + 1
       /\ (ev'.op = "promote_into" /\ ev'.ret = "Ok") =>
            /\ BitAnd(shared_count', CLEAR_LOCAL) = TrueSharedCount + 1
            /\ local_count' = local_count - 1
       /\ (ev'.op \in {"local_into", "shared_into"} /\ ev'.ret = "Ok") =>
            count' = count]_vars

\* C11: in the regular (independent-counter) scheme a consuming conversion,
\* Local -> Shared or Shared -> Local, returns Ok iff the count was 1 and then
\* leaves the counter at exactly 1 with the handle retyped; with a count of 2
\* or more it returns Err, the counter and the handles are unchanged, so the
\* attempt can be retried once the other handles are dropped.
C11_RegularIntoIffUnique ==
    [][(ev'.op \in {"local_into", "shared_into"}) =>
          /\ ev'.ret = "Ok" <=> count = 1
          /\ ev'.ret = "Ok" =>
                /\ count' = 1
                /\ TotalLive' = TotalLive
                /\ IF ev'.op = "local_into"
                   THEN /\ nLocal'[ev'.t] = nLocal[ev'.t] - 1
                        /\ nShared'[ev'.t] = nShared[ev'.t] + 1
                   ELSE /\ nShared'[ev'.t] = nShared[ev'.t] - 1
                        /\ nLocal'[ev'.t] = nLocal[ev'.t] + 1
          /\ ev'.ret = "Err" =>
                /\ count >= 2
                /\ count' = count /\ nLocal' = nLocal /\ nShared' = nShared]_vars

\* C11 witness: a Local -> Shared conversion has failed on a regular record
\* with two live Local handles, which are still there.
C11_Witness ==
    /\ scheme = "regular" /\ ev.op = "local_into" /\ ev.ret = "Err"
    /\ count = 2 /\ TotalLocal = 2

\* C12: in the regular scheme try_to_other returns Err in every state, for
\* both flavors and any count, count = 1 included, and changes no counter and
\* no handle.
C12_RegularToOtherRejects ==
    [][(ev'.op \in {"local_to", "shared_to"}) =>
          /\ ev'.ret = "Err"
          /\ count' = count /\ nLocal' = nLocal /\ nShared' = nShared
          /\ deallocs' = deallocs]_vars

\* C12 witness: try_to_other has returned Err on a unique Shared handle of a
\* regular record.
C12_Witness ==
    /\ scheme = "regular" /\ ev.op = "shared_to" /\ ev.ret = "Err"
    /\ count = 1 /\ TotalShared = 1

\* C13: on a hybrid record, in either configuration, the drop of the last
\* Local handle clears the presence flag, and a claim decided while the flag
\* is clear succeeds: a thread whose claim failed while another thread held
\* the Local claim succeeds when it retries, on a Shared handle still live,
\* after that thread has dropped its last Local handle.
C13_RetryAfterRelease ==
    [][/\ \A t \in Threads :
            (pc[t] = "ldrop_clear" /\ pc'[t] = "idle") => ~LocalPresent'
       /\ (ev'.op = "claim" /\ ~LocalPresent) =>
            /\ ev'.ret = "Ok"
            /\ LocalPresent'
            /\ pc'[ev'.t] \in {"claim_clone", "claim_rel"}]_vars

\* C13 witness: under track_threads a claim has succeeded on a record whose
\* thread-identity field still named another thread, the previous holder of
\* the Local claim, which has dropped its last Local handle since.
C13_Witness ==
    /\ track /\ ev.op = "claim" /\ ev.ret = "Ok"
    /\ old_thread_id[ev.t] \in Threads \ {ev.t}
    /\ old_shared_count[ev.t] < LOCAL_PRESENT
    /\ TotalLocal = 0

\* C14: under track_threads a claim made while the presence flag is already
\* set succeeds iff the caller is the thread recorded in the thread-identity
\* field; a caller that holds the record's Local handles is that thread, so
\* its re-claim succeeds, and it raises the local counter by one; the same
\* attempt from any other thread fails.
C14_OwnerReclaim ==
    [][/\ (track /\ ev'.op = "claim" /\ LocalPresent) =>
            /\ ev'.ret = "Ok" <=> BitAnd(thread_id, THREAD_ID_UNLOCKED) = ev'.t
            /\ nLocal[ev'.t] > 0 => ev'.ret = "Ok"
            /\ OtherHoldsLocalClaim(ev'.t) => ev'.ret = "Err"
       /\ (track /\ ev'.op \in {"claim_into_ret", "claim_to_ret"}
                 /\ ev'.ret = "Ok") =>
            /\ local_count' = local_count + 1
            /\ nLocal'[ev'.t] = nLocal[ev'.t] + 1]_vars

\* C14 witness: under track_threads the owner, already holding a Local
\* handle, has re-claimed and holds one Local handle more.
C14_Witness ==
    /\ track /\ ev.op = "claim_to_ret" /\ ev.ret = "Ok"
    /\ nLocal[ev.t] >= 2 /\ local_count = nLocal[ev.t]
    /\ thread_id = ev.t

\* The record is used through Shared handles only and its counter counts
\* them: no Local handle, no conversion in flight or behind it.
SharedOnly ==
    /\ Running /\ TotalLocal = 0
    /\ \A t \in Threads : Idle(t)
    /\ IF scheme = "regular" THEN count = TotalShared
                             ELSE shared_count = TotalShared

\* Thread t drops a Shared handle in this step.
SharedDropStep(t) ==
    /\ nShared'[t] = nShared[t] - 1
    /\ \A u \in Threads \ {t} : nShared'[u] = nShared[u]
    /\ nLocal' = nLocal /\ pc' = pc

\* C15: on a Shared record of either scheme whose handles are cloned and
\* dropped by several threads, a drop returns true iff the handle dropped was
\* the last one: while the original is live no thread's drop of its clone
\* deallocates, the record stays allocated for the original, and the drop of
\* the original, once it is the only handle, deallocates exactly once.
C15_SharedContention ==
    [][\A t \in Threads :
          (SharedOnly /\ SharedDropStep(t)) =>
              /\ deallocs = 0
              /\ TotalShared > 1 => deallocs' = 0
              /\ TotalShared = 1 => deallocs' = 1]_vars

\* C15 witness: every thread holds a Shared handle of the same record, the
\* original and one clone per thread, and nothing has been deallocated.
C15_Witness ==
    /\ SharedOnly /\ deallocs = 0
    /\ \A t \in Threads : nShared[t] >= 1
    /\ TotalShared = NThreads + 1

\* The record is used through Local handles only and its counter counts
\* them: no Shared handle, no conversion in flight or behind it.
LocalOnly ==
    /\ Running /\ TotalShared = 0
    /\ IF scheme = "regular"
       THEN count = SumTo(nLocal, NThreads)
       ELSE local_count = SumTo(nLocal, NThreads) /\ shared_count = LOCAL_PRESENT

\* Thread t drops a Local handle in this step (in the hybrid scheme: the
\* first half of the drop).
LocalDropStep(t) ==
    /\ nLocal'[t] = nLocal[t] - 1
    /\ nShared' = nShared
    /\ pc' = pc \/ pc'[t] = "ldrop_clear"

\* C16: on a Local record of either scheme with k + 1 live handles, the
\* drops of the first k handles, in any order, return false and leave the
\* record allocated, and the drop of the last handle returns true: the record
\* is deallocated once, and not earlier.
C16_LocalDropSequence ==
    [][\A t \in Threads :
          /\ (LocalOnly /\ LocalDropStep(t)) =>
                /\ deallocs = 0
                /\ SumTo(nLocal, NThreads) > 1 => (deallocs' = 0 /\ pc' = pc)
                /\ SumTo(nLocal, NThreads) = 1 =>
                      IF scheme = "regular"
                      THEN deallocs' = 1
                      ELSE deallocs' = 0 /\ pc'[t] = "ldrop_clear"
          /\ (LocalOnly /\ pc[t] = "ldrop_clear" /\ pc'[t] = "idle") =>
                (deallocs = 0 /\ deallocs' = 1)]_vars

\* C16 witness: on a hybrid Local record the drop of the last Local handle
\* is under way, after the drops of the other handles left the record
\* allocated.
C16_Witness ==
    /\ scheme = "hybrid" /\ LocalOnly /\ deallocs = 0
    /\ \E t \in Threads : pc[t] = "ldrop_clear"

\* C17: a handle converted to the complementary flavor and back, both
\* conversions succeeding, is a handle over the same record: nothing was
\* allocated or deallocated, the handle has its first flavor again, and the
\* counter describes the same number of live handles, one, as before the
\* round trip.  (The conversions write the metadata only.  On a hybrid
\* record no promote returns Ok, so the round trips that complete are those
\* of the regular scheme.)
C17_RoundTrip ==
    (trips = 2 /\ ev.op \in {"local_into", "shared_into"} /\ ev.ret = "Ok") =>
        /\ created /\ deallocs = 0
        /\ count = 1 /\ TotalLive = 1
        /\ IF ev.op = "shared_into" THEN nLocal[ev.t] = 1 ELSE nShared[ev.t] = 1
        /\ is_unique(IF ev.op = "shared_into" THEN "Local" ELSE "Shared")

\* C17 witness: a regular record's handle has been converted Local -> Shared
\* and back, or Shared -> Local and back, the second conversion just returned.
C17_Witness ==
    /\ scheme = "regular" /\ trips = 2
    /\ ev.op = "shared_into" /\ ev.ret = "Ok"
    /\ nLocal[ev.t] = 1 /\ count = 1

\* ====================================================== counter overflow
\* A record whose counters are anywhere in the range the code lets them
\* reach: handles that were cloned and then leaked with mem::forget are
\* counted but no longer held.  Every thread holds one Shared handle, or one
\* thread holds one Local handle, or (hybrid) both.
InitOverflow ==
    /\ DefaultBuild
    /\ ThreadTrackerDefault
    /\ scheme \in {"regular", "hybrid"}
    /\ track = FALSE
    /\ created = TRUE /\ deallocs = 0 /\ aborted = FALSE
    /\ thread_id = 0 /\ trips = 0 /\ ev = NoEvent
    /\ pc = [t \in Threads |-> "idle"]
    /\ consuming = [t \in Threads |-> FALSE]
    /\ old_thread_id = [t \in Threads |-> 0]
    /\ old_shared_count = [t \in Threads |-> 0]
    /\ \E owner \in Threads, hasLocal, hasShared \in BOOLEAN :
          /\ hasLocal \/ hasShared
          /\ scheme = "regular" => hasLocal # hasShared
          /\ nLocal = [t \in Threads |-> IF hasLocal /\ t = owner THEN 1 ELSE 0]
          /\ nShared = [t \in Threads |-> IF hasShared THEN 1 ELSE 0]
          /\ IF scheme = "regular"
             THEN /\ local_count = 0 /\ shared_count = 0
                  /\ IF hasLocal
                     THEN count \in 1..Regular_MAX_LOCAL_COUNT
                     ELSE count \in NThreads..(Regular_MAX_SHARED_COUNT + 1)
             ELSE /\ count = 0
                  /\ IF hasLocal THEN local_count \in 1..MAX_LOCAL_COUNT
                                 ELSE local_count = 0
                  /\ \E n \in (IF hasShared THEN NThreads ELSE 0)..(MAX_SHARED_COUNT + 1) :
                        shared_count = IF hasLocal THEN BitOr(n, LOCAL_PRESENT) ELSE n

\* mem::forget(handle.clone()) on a Local handle: Meta<LocalMode>::clone or
\* HybridMeta<LocalMode>::clone, the new handle leaked.
LocalCloneForget(t) ==
    /\ Running /\ Idle(t) /\ nLocal[t] > 0
    /\ IF scheme = "regular"
       THEN /\ IF RegularLocalCloneOverflow(count)
               THEN /\ aborted' = TRUE
                    /\ ev' = Event("local_clone", t, "abort")
                    /\ count' = count
               ELSE /\ count' = WrapAdd(count, 1)
                    /\ ev' = NoEvent
                    /\ UNCHANGED aborted
            /\ UNCHANGED local_count
       ELSE /\ IF LocalCloneOverflow(local_count)
               THEN /\ aborted' = TRUE
                    /\ ev' = Event("local_clone", t, "abort")
                    /\ local_count' = local_count
               ELSE /\ local_count' = WrapAdd(local_count, 1)
                    /\ ev' = NoEvent
                    /\ UNCHANGED aborted
            /\ UNCHANGED count
    /\ UNCHANGED <<config, trips, created, deallocs, shared_count, thread_id,
                   nLocal, nShared, pc, claimLocals>>

\* Meta<SharedMode>::clone / HybridMeta<SharedMode>::clone, first step:
\* fetch_add(1, Relaxed).  Other threads run before the test on `old`.
SharedCloneAdd(t) ==
    /\ Running /\ Idle(t) /\ nShared[t] > 0
    /\ IF scheme = "regular"
       THEN /\ old_shared_count' = [old_shared_count EXCEPT ![t] = count]
            /\ count' = WrapAdd(count, 1)
            /\ UNCHANGED shared_count
       ELSE /\ old_shared_count' = [old_shared_count EXCEPT ![t] = shared_count]
            /\ shared_count' = WrapAdd(shared_count, 1)
            /\ UNCHANGED count
    /\ pc' = [pc EXCEPT ![t] = "clone_chk"]
    /\ ev' = NoEvent
    /\ UNCHANGED <<config, trips, created, deallocs, aborted, local_count,
                   thread_id, nLocal, nShared, consuming, old_thread_id>>

\* Second step: the test on `old` and abort(), or the return; the handle
\* returned is leaked with mem::forget.
SharedCloneCheck(t) ==
    /\ Running /\ pc[t] = "clone_chk"
    /\ IF (IF scheme = "regular"
           THEN RegularSharedCloneOverflow(old_shared_count[t])
           ELSE SharedCloneOverflow(old_shared_count[t]))
       THEN /\ aborted' = TRUE
            /\ ev' = Event("shared_clone", t, "abort")
            /\ UNCHANGED <<pc, old_shared_count>>
       ELSE /\ pc' = [pc EXCEPT ![t] = "idle"]
            /\ old_shared_count' = [old_shared_count EXCEPT ![t] = 0]
            /\ ev' = NoEvent
            /\ UNCHANGED aborted
    /\ UNCHANGED <<config, trips, created, deallocs, meta, nLocal, nShared,
                   consuming, old_thread_id>>

NextOverflow ==
    \E t \in Threads :
        \/ LocalCloneForget(t)
        \/ SharedCloneAdd(t)
        \/ SharedCloneCheck(t)

SpecOverflow == InitOverflow /\ [][NextOverflow]_vars

C19_FallbackEffect ==
    ev'.op = "into_other" =>
        /\ ev.ret = "Err" /\ ev.t = ev'.t
        /\ ev'.ret = (IF ev.op = "local_into" THEN "Shared" ELSE "Local")
        /\ IF scheme = "regular" THEN count' = count - 1
                                 ELSE shared_count' = shared_count - 1
        /\ local_count' = local_count
        /\ TotalLive' = TotalLive - 1
        /\ deallocs = 0
        /\ deallocs' > 0 => TotalLive' = 0

MaxPayload == 8

RoundUp(x, a) == ((x + a - 1) \div a) * a
Max(a, b) == IF a >= b THEN a ELSE b

\* repr(C) struct: each field at the next offset aligned for it.
RECURSIVE FieldEnd(_, _)
FieldEnd(fields, i) ==
    IF i = 0 THEN 0
    ELSE RoundUp(FieldEnd(fields, i - 1), fields[i].align) + fields[i].size

RECURSIVE MaxAlign(_, _)
MaxAlign(fields, i) ==
    IF i = 0 THEN 1 ELSE Max(MaxAlign(fields, i - 1), fields[i].align)

RECURSIVE MaxSize(_, _)
MaxSize(fields, i) ==
    IF i = 0 THEN 0 ELSE Max(MaxSize(fields, i - 1), fields[i].size)

StructLayout(fields) ==
    Layout(RoundUp(FieldEnd(fields, Len(fields)), MaxAlign(fields, Len(fields))),
           MaxAlign(fields, Len(fields)))

\* repr(C) union: every field at offset 0.
UnionLayout(fields) ==
    Layout(RoundUp(MaxSize(fields, Len(fields)), MaxAlign(fields, Len(fields))),
           MaxAlign(fields, Len(fields)))

\* Offset of field i of a repr(C) struct.
FieldOffset(fields, i) == RoundUp(FieldEnd(fields, i - 1), fields[i].align)

\* The field types.  Cell<T> and ManuallyDrop<T> are laid out as T; the
\* atomics as the integer of their width; PhantomData<_> is zero-sized.
U32Layout == Layout(4, 4)
UsizeLayout == Layout(usize_bytes, usize_bytes)
PhantomLayout(mode) == Layout(0, 1)
CounterLayout == IF small_counters THEN U32Layout ELSE UsizeLayout

\* Faulty variant: the thread-identity field kept in the Shared flavor only.
HybridMetaFields_SharedThreadId(mode) ==
    (IF track /\ mode = "Shared" THEN <<UsizeLayout>> ELSE <<>>)
        \o <<U32Layout, U32Layout, PhantomLayout(mode)>>

\* struct HybridMeta<MODE> { thread_id (track_threads), local_count,
\* shared_count, phantom }
HybridMetaFields(mode) ==
    (IF track THEN <<UsizeLayout>> ELSE <<>>)
        \o <<U32Layout, U32Layout, PhantomLayout(mode)>>

\* union Meta<MODE> { local, shared, _marker }
MetaFields(mode) == <<CounterLayout, CounterLayout, PhantomLayout(mode)>>

MetaLayout(mode) ==
    IF scheme = "hybrid" THEN StructLayout(HybridMetaFields(mode))
                         ELSE UnionLayout(MetaFields(mode))

Other(mode) == IF mode = "Local" THEN "Shared" ELSE "Local"

\* struct FlexRcInner<META, META2, T> { metadata, phantom, data }
InnerFields(mode) == <<MetaLayout(mode), PhantomLayout(Other(mode)), payload>>

\* struct FlexRc<META, META2, T> { ptr: NonNull<_>, phantom }
HandleFields(mode) == <<UsizeLayout, PhantomLayout(mode)>>

LayoutsOf(mode) ==
    [meta |-> MetaLayout(mode),
     inner |-> StructLayout(InnerFields(mode)),
     data_offset |-> FieldOffset(InnerFields(mode), 3),
     handle |-> StructLayout(HandleFields(mode))]

Unlaid == [f \in Flavors |-> [meta |-> Layout(0, 0), inner |-> Layout(0, 0),
                              data_offset |-> 0, handle |-> Layout(0, 0)]]

PayloadLayouts ==
    {Layout(sz, al) : sz \in 0..MaxPayload, al \in {1, 2, 4, 8}}

\* Every supported build and a range of payload types.
InitLayout ==
    /\ scheme \in {"regular", "hybrid"}
    /\ track \in BOOLEAN /\ (scheme = "regular" => ~track)
    /\ small_counters \in BOOLEAN /\ (scheme = "hybrid" => ~small_counters)
    /\ usize_bytes \in {4, 8}
    /\ payload \in {l \in PayloadLayouts : l.size % l.align = 0}
    /\ layout = Unlaid
    /\ ThreadTrackerDefault
    /\ created = FALSE /\ deallocs = 0 /\ aborted = FALSE
    /\ count = 0 /\ local_count = 0 /\ shared_count = 0 /\ thread_id = 0
    /\ nLocal = [t \in Threads |-> 0]
    /\ nShared = [t \in Threads |-> 0]
    /\ pc = [t \in Threads |-> "idle"]
    /\ consuming = [t \in Threads |-> FALSE]
    /\ old_thread_id = [t \in Threads |-> 0]
    /\ old_shared_count = [t \in Threads |-> 0]
    /\ ev = NoEvent /\ trips = 0

\* The compiler lays out the types of both flavors.
ComputeLayout ==
    /\ layout = Unlaid
    /\ layout' = [f \in Flavors |-> LayoutsOf(f)]
    /\ UNCHANGED <<scheme, track, small_counters, usize_bytes, payload, created,
                   deallocs, aborted, meta, nLocal, nShared, pc, claimLocals,
                   ev, trips, tracker>>

NextLayout == ComputeLayout

SpecLayout == InitLayout /\ [][NextLayout]_vars

\* C20: the Local-flavored and the Shared-flavored metadata of a scheme, the
\* inner records built on them (the offset of the payload in them included)
\* and the handles have the same size and the same alignment, for every
\* counter width and payload type, so a pointer to one can be reinterpreted
\* as the other; without track_threads the hybrid metadata is 8 bytes.
C20_LayoutEqual ==
    layout # Unlaid =>
        /\ layout["Local"] = layout["Shared"]
        /\ (scheme = "hybrid" /\ ~track) => layout["Local"].meta.size = 8

\* C20 witness: the layouts of a hybrid build with track_threads on a 64-bit
\* target, whose metadata takes 16 bytes, have been computed.
C20_Witness ==
    /\ layout # Unlaid /\ scheme = "hybrid" /\ track /\ usize_bytes = 8
    /\ layout["Shared"].meta = Layout(16, 8)
    /\ layout["Local"].data_offset = 16

\* No operation is mid-flight: every thread is outside every call (a thread
\* may hold the &mut T that get_mut handed out).
Quiescent == \A t \in Threads : pc[t] \in {"idle", "mut"}

\* The counters as the two flavors read them.
LocalCounter == IF scheme = "regular" THEN count ELSE local_count
SharedCounter == IF scheme = "regular" THEN count ELSE TrueSharedCount

\* C21 (as claimed): in every state where no operation is mid-flight, the
\* Local counter equals the number of live Local handles whenever there is
\* one, and the true Shared counter equals the number of live Shared handles
\* whenever there is one, after any sequence of create, clone, drop and
\* conversion.
C21_CountingInvariant ==
    (Running /\ Quiescent) =>
        /\ TotalLocal >= 1 => LocalCounter = TotalLocal
        /\ TotalShared >= 1 => SharedCounter = TotalShared

\* C22 (as claimed): a hybrid Shared clone, the one inside a promote
\* included, aborts only when the true shared count, the shared word without
\* the presence-flag bit, exceeds MAX_SHARED_COUNT; with the presence flag set
\* and a small true shared count it does not abort.
C22_AbortOnlyOnTrueOverflow ==
    [][(scheme = "hybrid" /\ aborted' /\ ~aborted
        /\ ev'.op \in {"shared_clone", "promote_into", "promote_to"})
          => TrueSharedCount > MAX_SHARED_COUNT]_vars

\* C23: on a hybrid record a successful try_to_other leaves the source
\* handle live and counted, raises the target flavor's count by exactly one
\* and leaves the source flavor's count as it was; a successful claim also
\* sets the presence flag and does not change the true shared count.
C23_ToOtherKeepsSource ==
    [][/\ (ev'.op = "claim" /\ ev'.ret = "Ok") =>
            /\ LocalPresent'
            /\ BitAnd(shared_count', CLEAR_LOCAL) = TrueSharedCount
            /\ local_count' = local_count
       /\ (ev'.op = "claim_to_ret" /\ ev'.ret = "Ok") =>
            /\ local_count' = local_count + 1
            /\ shared_count' = shared_count /\ LocalPresent
            /\ nLocal'[ev'.t] = nLocal[ev'.t] + 1
            /\ nShared'[ev'.t] = nShared[ev'.t] + 1
            /\ TotalShared' = TotalShared
            /\ TotalLive' = TotalLive + 1
       /\ (ev'.op = "promote_to" /\ ev'.ret = "Ok") =>
            /\ BitAnd(shared_count', CLEAR_LOCAL) = TrueSharedCount + 1
            /\ LocalPresent' = LocalPresent
            /\ local_count' = local_count
            /\ nLocal' = nLocal
            /\ nShared'[ev'.t] = nShared[ev'.t] + 1]_vars

\* C23 witness: a try_to_other has returned a Local handle to a thread that
\* keeps the Shared handle it was called on; both flavors are counted.
C23_Witness ==
    /\ ev.op = "claim_to_ret" /\ ev.ret = "Ok"
    /\ nShared[ev.t] >= 1 /\ nLocal[ev.t] >= 1
    /\ LocalPresent /\ TrueSharedCount = TotalShared /\ local_count = TotalLocal

\* The second half of a hybrid Local drop that reached zero: fetch_and.
HybridLocalClearStep == \E t \in Threads : pc[t] = "ldrop_clear" /\ pc'[t] = "idle"

\* A hybrid Shared drop: fetch_sub on the shared word, one Shared handle less.
HybridSharedDropStep ==
    /\ shared_count' = WrapSub(shared_count, 1)
    /\ TotalShared' = TotalShared - 1

LocalMidFlight ==
    \E t \in Threads : pc[t] \in {"ldrop_clear", "claim_rel", "claim_clone"}

\* C25: on a hybrid record, while no Local drop and no claim is mid-flight,
\* the presence flag is set iff local_count >= 1, and the record is allocated
\* exactly when the flag is set or the true shared count is not zero.
C25_PresenceFlag ==
    (scheme = "hybrid" /\ created /\ ~aborted /\ ~LocalMidFlight) =>
        /\ LocalPresent <=> local_count >= 1
        /\ (deallocs = 0) <=> (LocalPresent \/ TrueSharedCount # 0)

\* C25 witness: under tracking a claimed Local side has been dropped again
\* (the owner's identity is still recorded) while Shared handles remain: flag
\* clear, local counter zero, record allocated.
C25_Witness ==
    /\ scheme = "hybrid" /\ track /\ created /\ ~aborted /\ Quiescent
    /\ thread_id # 0 /\ ~LocalPresent /\ local_count = 0
    /\ TrueSharedCount >= 1 /\ TotalShared >= 1 /\ deallocs = 0

\* The threads whose code may read or write the Cell local_count: a thread
\* with a Local handle (clone, drop, is_unique through it), and a claimer
\* whose fetch_or succeeded and whose Local clone() is still to come.
LocalCountAccessors == {t \in Threads : HoldsLocalClaim(t)}

\* The thread that takes the step, for the steps that write local_count.
WritesLocalCount(t) ==
    /\ local_count' # local_count
    /\ nLocal'[t] # nLocal[t]

\* C26: local_count of a hybrid record is never accessed by two threads at
\* overlapping times.  At most one thread at a time is able to access it; a
\* claim succeeds only on a fetch_or that found the presence flag clear or,
\* under track_threads, on the caller's own identity; every write is made by
\* that one thread; and a final Local drop has finished writing when it clears
\* the flag, which stays set, and keeps every other claimer out, until then.
C26_NoRaceOnLocalCount ==
    /\ [](scheme = "hybrid" =>
            /\ Cardinality(LocalCountAccessors) <= 1
            /\ \A v \in Threads :
                  pc[v] = "ldrop_clear" =>
                      /\ LocalPresent /\ local_count = 0
                      /\ \A u \in Threads \ {v} : ~HoldsLocalClaim(u))
    /\ [][scheme = "hybrid" =>
            /\ (ev'.op = "claim" /\ ev'.ret = "Ok") =>
                  \/ ~LocalPresent
                  \/ track /\ old_thread_id[ev'.t] = ev'.t
            /\ \A t \in Threads :
                  WritesLocalCount(t) =>
                      \A u \in Threads \ {t} :
                          ~HoldsLocalClaim(u) /\ pc[u] # "ldrop_clear"
            /\ HybridLocalClearStep => local_count' = local_count]_vars

\* C26 witness: under tracking one thread is between the decrement and the
\* fetch_and of its final Local drop while another thread's claim has run its
\* fetch_or, found the flag set, and is about to return Err.
C26_Witness ==
    \E u, v \in Threads :
        /\ u # v /\ scheme = "hybrid"
        /\ pc[v] = "ldrop_clear"
        /\ pc[u] = "claim_rel" /\ ~ClaimWon(u)
        /\ local_count = 0 /\ LocalPresent

\* C27: frame conditions on a hybrid record, for every call that returns.  A
\* step that changes local_count (Local clone, Local drop's decrement, the
\* clone inside a claim) leaves the shared word as it was; the fetch_and of a
\* Local drop that reached zero changes nothing but the presence bit; a step
\* that changes the true shared count (Shared clone, Shared drop) changes
\* neither local_count nor the presence bit.
C27_FrameConditions ==
    [][(scheme = "hybrid" /\ created /\ ~aborted') =>
        /\ local_count' # local_count => shared_count' = shared_count
        /\ HybridLocalClearStep =>
            /\ BitAnd(shared_count', CLEAR_LOCAL) = TrueSharedCount
            /\ ~LocalPresent'
            /\ local_count' = local_count
        /\ BitAnd(shared_count', CLEAR_LOCAL) # TrueSharedCount =>
            /\ local_count' = local_count
            /\ LocalPresent' = LocalPresent]_vars

\* C27 witness: Local handles have been cloned and then all dropped on a
\* record that kept two Shared handles throughout: the shared count is what
\* the Shared handles made it.
C27_Witness ==
    /\ scheme = "hybrid" /\ created /\ ~aborted /\ Quiescent /\ deallocs = 0
    /\ track /\ thread_id # 0
    /\ local_count = 0 /\ ~LocalPresent
    /\ TotalShared = 2 /\ TrueSharedCount = 2

\* The metadata as create() of the given flavor builds it.
AsCreated(flavor) ==
    IF scheme = "regular"
    THEN count = 1
    ELSE IF flavor = "Local"
         THEN local_count = 1 /\ shared_count = LOCAL_PRESENT
         ELSE local_count = 0 /\ shared_count = 1 /\ ~LocalPresent

\* One live handle, of the given flavor, on a record whose metadata is as
\* create() built it; no call in progress.
Fresh(flavor) ==
    /\ created /\ ~aborted /\ deallocs = 0 /\ Quiescent
    /\ TotalLive = 1
    /\ (IF flavor = "Local" THEN TotalLocal ELSE TotalShared) = 1
    /\ AsCreated(flavor)

\* The one Local handle of a fresh hybrid record is between the decrement and
\* the fetch_and of its drop.
FreshLocalDropping ==
    /\ scheme = "hybrid" /\ created /\ ~aborted /\ deallocs = 0
    /\ TotalLive = 1 /\ \E t \in Threads : pc[t] = "ldrop_clear"
    /\ local_count = 0 /\ shared_count = LOCAL_PRESENT

\* C28: create() yields metadata for exactly one live handle of its own
\* flavor and none of the other: hybrid Local, local counter 1 and shared word
\* LOCAL_PRESENT; hybrid Shared, local counter 0 and shared word 1 (thread
\* identity 0 under tracking); regular, counter 1.  The fresh handle is
\* unique and its single drop returns true.
C28_Create ==
    [][/\ (~created /\ created') =>
            \E flavor \in Flavors :
                /\ Fresh(flavor)'
                /\ is_unique(flavor)'
                /\ (scheme = "hybrid" /\ track /\ flavor = "Shared") => thread_id' = 0
                /\ scheme = "hybrid" =>
                      (IF flavor = "Local" THEN TrueSharedCount' = 0 /\ LocalPresent'
                                           ELSE TrueSharedCount' = 1 /\ local_count' = 0)
       /\ (Fresh("Local") /\ scheme = "hybrid" /\ nLocal' # nLocal /\ TotalLocal' = 1) =>
            FreshLocalDropping'
       /\ ((Fresh("Local") \/ Fresh("Shared") \/ FreshLocalDropping) /\ TotalLive' = 0) =>
            deallocs' = 1]_vars

\* C28 witness: a hybrid Shared record under tracking as create() built it:
\* one Shared handle, no thread identity recorded, unique.
C28_Witness ==
    /\ scheme = "hybrid" /\ track /\ thread_id = 0
    /\ Fresh("Shared") /\ is_unique("Shared")

\* The threads between the fetch_or that obtained the spinlock and the store
\* or fetch_and that releases it.
InCriticalSection == {t \in Threads : pc[t] \in {"claim_or", "claim_rel"}}

\* The lock bit of the thread-identity field.
LockBitSet == thread_id >= THREAD_ID_LOCKED

\* C29: under track_threads at most one thread at a time is between
\* acquiring the lock bit of the thread-identity field and releasing it.
C29_SpinlockMutex ==
    (scheme = "hybrid" /\ track) => Cardinality(InCriticalSection) <= 1

\* C29 witness: one thread holds the spinlock and has run its fetch_or on the
\* shared word while another thread turns in the spin loop.
C29_Witness ==
    \E u, v \in Threads :
        /\ u # v /\ track
        /\ pc[u] = "claim_rel" /\ pc[v] = "claim_lock"
        /\ LockBitSet

\* --------------------------------------------------------------- fairness
\* A thread inside a claim keeps running: each of its steps, once enabled,
\* is taken (weak fairness).  The turn of the spin loop that obtains the lock
\* is enabled only while the lock is free, which under contention is again and
\* again but not continuously: the scheduler is assumed to let a spinning
\* thread's fetch_or fall into one of those intervals (strong fairness).
Fairness ==
    \A t \in Threads :
        /\ WF_vars(TrackedClaimOr(t))
        /\ WF_vars(TrackedClaimRelease(t))
        /\ WF_vars(ClaimClone(t))
        /\ SF_vars(TrackedClaimSpin(t) /\ pc'[t] = "claim_or")

\* The build with track_threads: a hybrid record and the operations of its
\* handles.  Claims are made through try_to_other, which runs try_into_other
\* and keeps the handle it was called on.
InitTracked == Init /\ scheme = "hybrid" /\ track

NextTracked ==
    \E t \in Threads :
        \/ \E mode \in Flavors : New(t, mode)
        \/ HybridLocalClone(t)
        \/ HybridLocalDropDec(t)
        \/ HybridLocalDropClear(t)
        \/ HybridSharedClone(t)
        \/ HybridSharedDrop(t)
        \/ \E into \in BOOLEAN : HybridPromote(t, into)
        \/ TrackedClaimBegin(t, FALSE)
        \/ TrackedClaimSpin(t)
        \/ TrackedClaimOr(t)
        \/ TrackedClaimRelease(t)
        \/ ClaimClone(t)
        \/ \E flavor \in Flavors : GetMut(t, flavor)
        \/ ReleaseMut(t)
        \/ \E u \in Threads : Send(t, u)

SpecFair == InitTracked /\ [][NextTracked]_vars /\ Fairness

ClaimInProgress == \E t \in Threads : pc[t] \in ClaimPcs

\* C31: under track_threads, whenever no claim is in progress and a hybrid
\* record has a live Local handle, the thread-identity field has the lock bit
\* clear and holds the identity of the thread that holds the Local handles:
\* the creating thread of a Local-created record, otherwise the last
\* successful claimant.
C31_OwnerIdentity ==
    (scheme = "hybrid" /\ track /\ created /\ ~aborted /\ ~ClaimInProgress) =>
        \A t \in Threads :
            LiveLocal(t) >= 1 => (thread_id = t /\ ~LockBitSet)

\* C31 witness: a thread other than the owner has just had its claim
\* rejected; the owner still holds its Local handles and the field still
\* names it.
C31_Witness ==
    /\ scheme = "hybrid" /\ track /\ ~ClaimInProgress
    /\ ev.op = "claim_ret" /\ ev.ret = "Err"
    /\ \E t \in Threads \ {ev.t} : nLocal[t] >= 1 /\ thread_id = t

\* ========================================================= thread tracker
\* algorithm/hybrid_threads.rs: the identities the tracked claim compares.
\* A thread's THREAD_ID is issued by get_new_id on the thread's first use of it
\* and handed back by return_id when the thread ends (impl Drop for ThreadId).
\* The rest of the record's state is left as it is initially.
record == <<scheme, track, small_counters, usize_bytes, payload, layout, created,
            deallocs, aborted, meta, nLocal, nShared, pc, claimLocals, ev, trips>>

\* The identities get_new_id can hand out.
Identities == 1..(MAX_THREADS - 1)

\* Faulty variants of the two tests of the probe loop.
InsertIsNew_Always(c, used) == TRUE
NextCounter_ResetZero(c) ==
    IF (c + 1) % Pow2(IdBits) = MAX_THREADS THEN 0 ELSE (c + 1) % Pow2(IdBits)
NextCounter_Stuck(c) == c

\* inner.counter += 1; if inner.counter == MAX_THREADS { inner.counter = 1 }
NextCounter(c) ==
    IF (c + 1) % Pow2(IdBits) = MAX_THREADS THEN 1 ELSE (c + 1) % Pow2(IdBits)

\* HashSet::insert returns true iff the value was not in the set.
InsertIsNew(c, used) == c \notin used

\* A thread starts.
Spawn(t) ==
    /\ tpc[t] = "none"
    /\ tpc' = [tpc EXCEPT ![t] = "run"]
    /\ UNCHANGED <<record, counter, used_counters, guard, THREAD_ID, probes>>

\* A thread that never used THREAD_ID ends: there is no ThreadId to drop.
Exit(t) ==
    /\ tpc[t] = "run"
    /\ tpc' = [tpc EXCEPT ![t] = "none"]
    /\ UNCHANGED <<record, counter, used_counters, guard, THREAD_ID, probes>>

\* First use of THREAD_ID by the thread: get_new_id is called and waits for
\* the Mutex.
CallGetNewId(t) ==
    /\ tpc[t] = "run"
    /\ tpc' = [tpc EXCEPT ![t] = "get_new_id"]
    /\ UNCHANGED <<record, counter, used_counters, guard, THREAD_ID, probes>>

\* get_new_id: self.0.lock()
LockGetNewId(t) ==
    /\ tpc[t] = "get_new_id" /\ guard = 0
    /\ guard' = t
    /\ probes' = 0
    /\ tpc' = [tpc EXCEPT ![t] = "probe"]
    /\ UNCHANGED <<record, counter, used_counters, THREAD_ID>>

\* get_new_id: one turn of the loop; the return drops the guard.
Probe(t) ==
    /\ tpc[t] = "probe"
    /\ counter' = NextCounter(counter)
    /\ IF InsertIsNew(counter', used_counters)
       THEN /\ used_counters' = used_counters \cup {counter'}
            /\ THREAD_ID' = [THREAD_ID EXCEPT ![t] = counter']
            /\ guard' = 0
            /\ probes' = 0
            /\ tpc' = [tpc EXCEPT ![t] = "has_id"]
       ELSE /\ probes' = (IF probes < MAX_THREADS THEN probes + 1 ELSE probes)
            /\ UNCHANGED <<used_counters, THREAD_ID, guard, tpc>>
    /\ UNCHANGED record

\* The thread ends: its THREAD_ID is dropped, return_id is called and waits
\* for the Mutex.
Terminate(t) ==
    /\ tpc[t] = "has_id"
    /\ tpc' = [tpc EXCEPT ![t] = "return_id"]
    /\ UNCHANGED <<record, counter, used_counters, guard, THREAD_ID, probes>>

\* return_id: lock(), used_counters.remove(&id), and the guard is dropped.
ReturnId(t) ==
    /\ tpc[t] = "return_id" /\ guard = 0
    /\ used_counters' = used_counters \ {THREAD_ID[t]}
    /\ THREAD_ID' = [THREAD_ID EXCEPT ![t] = 0]
    /\ tpc' = [tpc EXCEPT ![t] = "none"]
    /\ UNCHANGED <<record, counter, guard, probes>>

NextThreads ==
    \E t \in TrackerThreads :
        \/ Spawn(t)
        \/ Exit(t)
        \/ CallGetNewId(t)
        \/ LockGetNewId(t)
        \/ Probe(t)
        \/ Terminate(t)
        \/ ReturnId(t)

\* The thread that holds the Mutex keeps running (weak fairness); a thread
\* blocked in lock() gets the Mutex at one of the times it is free (strong
\* fairness: the Mutex is free again and again, not continuously).
FairnessThreads ==
    \A t \in TrackerThreads :
        /\ WF_vars(Probe(t))
        /\ SF_vars(LockGetNewId(t))
        /\ SF_vars(ReturnId(t))

SpecThreads == InitTracked /\ [][NextThreads]_vars /\ FairnessThreads

\* The live threads that hold an identity.
Holders == {t \in TrackerThreads : tpc[t] \in {"has_id", "return_id"}}

\* C32: thread identities are unique among live threads: no two live threads
\* hold the same identity, the issued set is exactly the set of identities
\* of the live threads that requested one, and return_id takes out of the
\* issued set the identity it is given, so that it can be issued again.
C32_UniqueIdentities ==
    /\ [](/\ \A t, u \in Holders : THREAD_ID[t] = THREAD_ID[u] => t = u
          /\ used_counters = {THREAD_ID[t] : t \in Holders}
          /\ \A t \in TrackerThreads \ Holders : THREAD_ID[t] = 0)
    /\ [][\A t \in TrackerThreads :
            (tpc[t] = "return_id" /\ tpc'[t] = "none") =>
                /\ THREAD_ID[t] \notin used_counters'
                /\ used_counters' = used_counters \ {THREAD_ID[t]}]_vars

\* C32 witness: the identity issued last is smaller than one still held by
\* another live thread: the counter has wrapped, so the identity had been
\* issued before, was handed back by return_id and is issued again.
C32_Witness ==
    \E t, u \in Holders :
        /\ t # u /\ guard = 0
        /\ THREAD_ID[t] = counter
        /\ THREAD_ID[u] > THREAD_ID[t]

\* C34: every identity get_new_id issues lies in 1..MAX_THREADS-1, also
\* after the counter has wrapped: it is never 0, the value a freshly created
\* Shared hybrid record stores for "no owner", and never has the
\* THREAD_ID_LOCKED bit set, so the thread-identity field holding it shows
\* neither a held lock nor "no owner".
C34_IdentityRange ==
    /\ counter \in 0..(MAX_THREADS - 1)
    /\ used_counters \subseteq Identities
    /\ \A t \in Holders :
          /\ THREAD_ID[t] \in Identities
          /\ THREAD_ID[t] # 0
          /\ THREAD_ID[t] < THREAD_ID_LOCKED
          /\ BitAnd(THREAD_ID[t], THREAD_ID_LOCKED) = 0
          /\ LockObtained(UnlockOnSuccess(THREAD_ID[t]))

\* C34 witness: the counter has wrapped: the largest identity is held by a
\* thread and the identity issued after it, the latest, is 1.
C34_Witness ==
    /\ counter = 1 /\ guard = 0
    /\ \E t, u \in Holders :
          THREAD_ID[t] = 1 /\ THREAD_ID[u] = MAX_THREADS - 1

\* Every identity is issued and a thread is in the probe loop: the loop finds
\* no free value, and the thread keeps the Mutex.
Exhausted ==
    \E u \in TrackerThreads : tpc[u] = "probe" /\ used_counters = Identities

\* Thread t is inside get_new_id or return_id: waiting for the Mutex, or in
\* the probe loop.
InTrackerCall(t) == tpc[t] \in {"get_new_id", "probe", "return_id"}

\* C35: get_new_id terminates.  The Mutex is held only by a thread in the
\* probe loop; while some identity in 1..MAX_THREADS-1 is not issued the loop
\* returns an identity within MAX_THREADS-1 turns and releases the Mutex; so
\* a caller of get_new_id or return_id waiting for the Mutex gets it, unless
\* every identity is issued.
C35_GetNewIdTerminates ==
    /\ [](/\ guard # 0 => tpc[guard] = "probe"
          /\ \A t \in TrackerThreads :
                /\ tpc[t] = "probe" => guard = t
                /\ (tpc[t] = "probe" /\ used_counters # Identities) =>
                      probes < MAX_THREADS - 1)
    /\ \A t \in TrackerThreads :
          InTrackerCall(t) ~> (~InTrackerCall(t) \/ Exhausted)

\* C35 witness: a get_new_id call has found an identity in use and probes
\* again, with an identity still free, while another thread waits for the
\* Mutex.
C35_Witness ==
    /\ probes >= 1 /\ used_counters # Identities
    /\ \E t \in TrackerThreads : tpc[t] = "probe" /\ guard = t
    /\ \E u \in TrackerThreads : tpc[u] \in {"get_new_id", "return_id"}

\* ======================================================= memory orderings
\* The memory-ordering effects, in program order, of the path of
\* Algorithm::drop that returns true: the Ordering of its atomic
\* read-modify-write and the fence after it, if any.  The regular Local drop
\* works on a Cell and has none.
DropOrderings(sch, flavor) ==
    IF sch = "regular"
    THEN (IF flavor = "Shared" THEN <<"Release", "Acquire">> ELSE << >>)
    ELSE (IF flavor = "Shared" THEN <<"Release", "Acquire">> ELSE <<"Release">>)

\* The Ordering of the atomic load in Algorithm::is_unique; the regular Local
\* is_unique reads a Cell.
IsUniqueOrdering(sch, flavor) ==
    IF sch = "regular" /\ flavor = "Local" THEN "none" ELSE "Acquire"

\* An acquire effect follows a release effect.
ReleaseThenAcquire(seq) ==
    \E i, j \in DOMAIN seq : i < j /\ seq[i] = "Release" /\ seq[j] = "Acquire"

\* The flavor of the handle whose drop deallocates the record in this step.
DeallocatingDrop(flavor) ==
    /\ deallocs' = deallocs + 1
    /\ IF flavor = "Local" THEN TotalLocal' < TotalLocal ELSE TotalShared' < TotalShared

\* C33 (as claimed): every drop that returns true has performed an acquire
\* fence or acquire operation after its release decrement or release
\* flag-clear and before the deallocation, on the regular Shared drop, the
\* hybrid Shared drop and the hybrid Local drop that clears the presence
\* flag; and every Shared uniqueness check is an acquire load.
C33_AcquireBeforeDealloc ==
    [][/\ DeallocatingDrop("Shared") =>
            ReleaseThenAcquire(DropOrderings(scheme, "Shared"))
       /\ (scheme = "hybrid" /\ DeallocatingDrop("Local")) =>
            ReleaseThenAcquire(DropOrderings(scheme, "Local"))
       /\ ev'.op = "shared_get_mut" =>
            IsUniqueOrdering(scheme, "Shared") = "Acquire"]_vars
====
